---------------------------- MODULE Spec2Model ----------------------------
(***************************************************************************)
(* Ride-sharing dispatch: the split implementation under src/src           *)
(* (RideSharingSystem, Driver, PassengerRequest).  The model keeps the     *)
(* pending-request queue, the driver records and the request flags as the  *)
(* state, one dispatch cycle of process_passenger_requests as two steps    *)
(* (the pop at the loop head, then the rest of the loop body), and         *)
(* calculate_optimal_route as an operator that runs the code's Dijkstra    *)
(* search over its heap.                                                   *)
(*                                                                         *)
(* Python values: None is the node "None" / the route NoneRoute, an        *)
(* attribute that was never set is Unset / UnsetRoute, float('inf') is     *)
(* Inf.  A raised exception is the field raised of an operator's result    *)
(* and pc = "raised" in the dispatch loop.                                 *)
(***************************************************************************)
EXTENDS Integers, Sequences, FiniteSets, TLC

VARIABLES graph, drivers, pickup_address, is_canceled,
          passenger_request_queue, pc, current, event, call, calls

vars == <<graph, drivers, pickup_address, is_canceled,
          passenger_request_queue, pc, current, event, call, calls>>

-----------------------------------------------------------------------------
(* Bounds of the model *)

NumDrivers == 2
NumRequests == 2
MaxQueueLen == 5
MaxWeight == 2
\* Calls made by collaborators (cancel_request, update_driver_status,
\* assign_ride, a further process_passenger_requests) in one behaviour.
MaxCalls == 2

(* Program constants *)

Inf == 1000000
AVERAGE_SPEED == 30

Unset == 0
NoneRoute == <<"None">>
UnsetRoute == <<"unset">>

-----------------------------------------------------------------------------
(* Static configuration: the routing graph and the coordinate mapping *)

SampleGraph ==
    [n \in {"A", "B", "C", "D"} |->
        CASE n = "A" -> ("B" :> 1 @@ "C" :> 4)
          [] n = "B" -> ("A" :> 1 @@ "C" :> 2 @@ "D" :> 5)
          [] n = "C" -> ("A" :> 4 @@ "B" :> 2 @@ "D" :> 1)
          [] n = "D" -> ("B" :> 5 @@ "C" :> 1)]

\* The sample graph with node D cut off: no edge enters or leaves D.
IslandGraph ==
    [n \in {"A", "B", "C", "D"} |->
        CASE n = "A" -> ("B" :> 1 @@ "C" :> 4)
          [] n = "B" -> ("A" :> 1 @@ "C" :> 2)
          [] n = "C" -> ("A" :> 4 @@ "B" :> 2)
          [] n = "D" -> <<>>]

\* Coordinates are (latitude, longitude) in units of 1e-4 degree.
Paris == <<488566, 23522>>
NewYork == <<407128, -740060>>
London == <<515074, -1278>>
Berlin == <<525200, 134050>>
\* A coordinate that location_mapping does not hold.
Nowhere == <<0, 0>>
\* Two more of them, antipodes of each other: (-21.9656, -55.1049) and
\* (21.9656, 124.8951).
Pantanal == <<-219656, -551049>>
PhilippineSea == <<219656, 1248951>>

location_mapping ==
    ("A" :> Paris @@ "B" :> NewYork @@ "C" :> London @@ "D" :> Berlin)

\* Iteration order of the dicts and the order of Python's str comparison.
NodeOrder == <<"A", "B", "C", "D", "Z">>

Rank(n) == CHOOSE i \in 1..Len(NodeOrder) : NodeOrder[i] = n

-----------------------------------------------------------------------------
(* Geo distance, location resolver, arrival time *)

\* calculate_distance raised ValueError: in floating point a came out above
\* 1.0 and math.sqrt(1 - a) has a negative argument.
DomainError == -1

\* The haversine distance with radius 6371.0, rounded to whole kilometres.
calculate_distance(location1, location2) ==
    LET pair == {location1, location2} IN
    CASE location1 = location2 -> 0
      [] pair = {Paris, NewYork} -> 5837
      [] pair = {Paris, London} -> 344
      [] pair = {Paris, Berlin} -> 877
      [] pair = {Paris, Nowhere} -> 5437
      [] pair = {NewYork, London} -> 5570
      [] pair = {NewYork, Berlin} -> 6385
      [] pair = {NewYork, Nowhere} -> 8667
      [] pair = {London, Berlin} -> 932
      [] pair = {London, Nowhere} -> 5727
      [] pair = {Berlin, Nowhere} -> 5972
      [] pair = {Pantanal, PhilippineSea} -> DomainError
      [] pair = {Pantanal, Paris} -> 9711
      [] pair = {Pantanal, NewYork} -> 7238
      [] pair = {Pantanal, London} -> 9762
      [] pair = {Pantanal, Berlin} -> 10582
      [] pair = {Pantanal, Nowhere} -> 6445
      [] pair = {PhilippineSea, Paris} -> 10304
      [] pair = {PhilippineSea, NewYork} -> 12777
      [] pair = {PhilippineSea, London} -> 10253
      [] pair = {PhilippineSea, Berlin} -> 9433
      [] pair = {PhilippineSea, Nowhere} -> 13571

get_coordinates(address) ==
    LET hits == {i \in 1..Len(NodeOrder) :
                    /\ NodeOrder[i] \in DOMAIN location_mapping
                    /\ location_mapping[NodeOrder[i]] = address}
    IN IF hits = {} THEN "None"
       ELSE NodeOrder[CHOOSE i \in hits : \A j \in hits : i <= j]

calculate_estimated_arrival_time(distance) ==
    (distance * 60) \div AVERAGE_SPEED

-----------------------------------------------------------------------------
(* Route planner: calculate_optimal_route *)

\* Mutant of HeapMin: the heap hands out its greatest tuple.
HeapMax(heap) ==
    CHOOSE t \in heap :
        \A u \in heap :
            \/ u = t
            \/ t[1] > u[1]
            \/ (t[1] = u[1] /\ Rank(t[2]) >= Rank(u[2]))

\* heapq.heappop: the least (distance, node) tuple of the heap.
HeapMin(heap) ==
    CHOOSE t \in heap :
        \A u \in heap :
            \/ u = t
            \/ t[1] < u[1]
            \/ (t[1] = u[1] /\ Rank(t[2]) <= Rank(u[2]))

\* The path reconstruction loop; the result is already reversed (path[::-1]).
RECURSIVE ReconstructPath(_, _)
ReconstructPath(predecessors, current_node) ==
    IF current_node = "None"
    THEN [raised |-> FALSE, path |-> <<>>]
    ELSE IF current_node \notin DOMAIN predecessors
         THEN [raised |-> TRUE, path |-> <<>>]
         ELSE LET rest == ReconstructPath(predecessors,
                                          predecessors[current_node])
              IN [raised |-> rest.raised,
                  path |-> rest.path \o <<current_node>>]

RECURSIVE DijkstraLoop(_, _, _, _, _)
DijkstraLoop(g, end_node, distances, predecessors, queue) ==
    IF queue = {}
    THEN [raised |-> FALSE, path |-> NoneRoute]
    ELSE LET top == HeapMin(queue)
             current_distance == top[1]
             current_node == top[2]
             rest == queue \ {top}
         IN IF current_node = end_node
            THEN ReconstructPath(predecessors, current_node)
            ELSE IF current_distance > distances[current_node]
            THEN DijkstraLoop(g, end_node, distances, predecessors, rest)
            ELSE IF current_node \notin DOMAIN g
            THEN [raised |-> TRUE, path |-> <<>>]
            ELSE LET better == {nb \in DOMAIN g[current_node] :
                                  current_distance + g[current_node][nb]
                                      < distances[nb]}
                 IN DijkstraLoop(
                      g, end_node,
                      [n \in DOMAIN distances |->
                          IF n \in better
                          THEN current_distance + g[current_node][n]
                          ELSE distances[n]],
                      [n \in DOMAIN predecessors |->
                          IF n \in better THEN current_node
                          ELSE predecessors[n]],
                      rest \cup {<<current_distance + g[current_node][nb], nb>> :
                                    nb \in better})

\* Mutant of calculate_optimal_route: the start node is expanded before the
\* first test against end_node.
route_after_first_step(g, start_location, end_location) ==
    DijkstraLoop(g, end_location,
                 [n \in DOMAIN g \cup {start_location} |->
                     IF n = start_location THEN 0 ELSE Inf],
                 [n \in DOMAIN g |-> "None"],
                 IF start_location \in DOMAIN g
                 THEN {<<g[start_location][nb], nb>> :
                          nb \in DOMAIN g[start_location]}
                 ELSE {<<0, start_location>>})

calculate_optimal_route(g, start_location, end_location) ==
    DijkstraLoop(g, end_location,
                 [n \in DOMAIN g \cup {start_location} |->
                     IF n = start_location THEN 0 ELSE Inf],
                 [n \in DOMAIN g |-> "None"],
                 {<<0, start_location>>})

\* Python truthiness of a route: None and [] are falsy.
Falsy(route) == route = NoneRoute \/ route = <<>>

-----------------------------------------------------------------------------
(* Driver registry *)

\* Driver.__init__ sets name, location and is_available only.
Driver(location, is_available) ==
    [location |-> location, is_available |-> is_available,
     current_passenger |-> Unset, current_route |-> UnsetRoute]

\* Mutant of find_available_drivers: the test of is_available is missing.
find_every_driver(ds, passenger_location) ==
    SelectSeq([i \in 1..Len(ds) |-> i],
              LAMBDA i : calculate_distance(ds[i].location,
                                            passenger_location) <= Inf)

\* find_available_drivers raises when calculate_distance does, which it
\* calls for the available drivers only (the `and` short-circuits).
find_available_drivers_raises(ds, passenger_location) ==
    \E i \in 1..Len(ds) :
        /\ ds[i].is_available
        /\ calculate_distance(ds[i].location, passenger_location)
               = DomainError

\* MAX_DISTANCE is float('inf').
find_available_drivers(ds, passenger_location) ==
    SelectSeq([i \in 1..Len(ds) |-> i],
              LAMBDA i : /\ ds[i].is_available
                         /\ calculate_distance(ds[i].location,
                                               passenger_location) <= Inf)

\* Mutant of handle_unavailable_driver: nothing is appended.
handle_nothing(queue, passenger) == queue

handle_unavailable_driver(queue, passenger) == Append(queue, passenger)

\* Mutant of assign_ride: every available driver is committed.
assign_ride_all(ds, queue, driver, passenger, optimal_route) ==
    IF ds[driver].is_available
    THEN [drivers |-> [d \in DOMAIN ds |->
                          IF ds[d].is_available
                          THEN [ds[d] EXCEPT !.is_available = FALSE,
                                             !.current_passenger = passenger,
                                             !.current_route = optimal_route]
                          ELSE ds[d]],
          queue |-> queue]
    ELSE [drivers |-> ds,
          queue |-> handle_unavailable_driver(queue, passenger)]

\* Mutant of assign_ride: is_available is not tested.
assign_ride_always(ds, queue, driver, passenger, optimal_route) ==
    [drivers |-> [ds EXCEPT ![driver] =
                     [@ EXCEPT !.is_available = FALSE,
                               !.current_passenger = passenger,
                               !.current_route = optimal_route]],
     queue |-> queue]

\* Mutant of assign_ride: the ride is committed to the first driver of the
\* registry, not to the driver passed.
assign_ride_first(ds, queue, driver, passenger, optimal_route) ==
    IF ds[driver].is_available
    THEN [drivers |-> [ds EXCEPT ![1] =
                          [@ EXCEPT !.is_available = FALSE,
                                    !.current_passenger = passenger,
                                    !.current_route = optimal_route]],
          queue |-> queue]
    ELSE [drivers |-> ds,
          queue |-> handle_unavailable_driver(queue, passenger)]

assign_ride(ds, queue, driver, passenger, optimal_route) ==
    IF ds[driver].is_available
    THEN [drivers |-> [ds EXCEPT ![driver] =
                          [@ EXCEPT !.is_available = FALSE,
                                    !.current_passenger = passenger,
                                    !.current_route = optimal_route]],
          queue |-> queue]
    ELSE [drivers |-> ds,
          queue |-> handle_unavailable_driver(queue, passenger)]

\* Driver.update_status: the assignment, then a log line that reads
\* self.uuid, which no Driver has (AttributeError).
update_status(ds, driver, is_available) ==
    [drivers |-> [ds EXCEPT ![driver] =
                     [@ EXCEPT !.is_available = is_available]],
     raised |-> TRUE]

-----------------------------------------------------------------------------
(* Dispatch engine: the body of the loop of process_passenger_requests *)

\* The locals of one loop body before its for loop.
ScanStart(queue) ==
    [best_driver |-> Unset, best_distance |-> Inf,
     best_estimated_arrival_time |-> Inf, optimal_route |-> UnsetRoute,
     queue |-> queue, raised |-> FALSE]

\* Mutant of Better: every viable candidate replaces the best so far.
LastWins(estimated_arrival_time, distance_to_pickup, st) == TRUE

\* Better(...) is the test that replaces the best candidate so far.
Better(estimated_arrival_time, distance_to_pickup, st) ==
    \/ estimated_arrival_time < st.best_estimated_arrival_time
    \/ /\ estimated_arrival_time = st.best_estimated_arrival_time
       /\ distance_to_pickup < st.best_distance

\* The for loop over available_drivers; a KeyError leaves it at once.
RECURSIVE CandidateLoop(_, _, _, _, _, _)
CandidateLoop(g, ds, request, address, todo, st) ==
    IF todo = <<>> \/ st.raised
    THEN st
    ELSE LET driver == Head(todo)
             r == calculate_optimal_route(
                      g, get_coordinates(ds[driver].location),
                      get_coordinates(address))
             distance_to_pickup ==
                 calculate_distance(ds[driver].location, address)
             estimated_arrival_time ==
                 calculate_estimated_arrival_time(distance_to_pickup)
         IN IF r.raised
            THEN [st EXCEPT !.raised = TRUE]
            ELSE IF Falsy(r.path)
            THEN CandidateLoop(g, ds, request, address, Tail(todo),
                   [st EXCEPT !.optimal_route = r.path,
                              !.queue = handle_unavailable_driver(@, request)])
            ELSE IF Better(estimated_arrival_time, distance_to_pickup, st)
            THEN CandidateLoop(g, ds, request, address, Tail(todo),
                   [st EXCEPT !.optimal_route = r.path,
                              !.best_driver = driver,
                              !.best_distance = distance_to_pickup,
                              !.best_estimated_arrival_time =
                                  estimated_arrival_time])
            ELSE CandidateLoop(g, ds, request, address, Tail(todo),
                   [st EXCEPT !.optimal_route = r.path])

\* One loop body for a request that is not canceled, after the pop.
process_request(g, ds, queue, request, address) ==
    LET st == IF find_available_drivers_raises(ds, address)
              THEN [ScanStart(queue) EXCEPT !.raised = TRUE]
              ELSE CandidateLoop(g, ds, request, address,
                                 find_available_drivers(ds, address),
                                 ScanStart(queue))
    IN IF st.raised
       THEN [drivers |-> ds, queue |-> st.queue, outcome |-> "raised",
             driver |-> Unset]
       ELSE IF st.best_driver # Unset
       THEN LET a == assign_ride(ds, st.queue, st.best_driver, request,
                                 st.optimal_route)
            IN [drivers |-> a.drivers, queue |-> a.queue,
                outcome |-> "assigned", driver |-> st.best_driver]
       ELSE [drivers |-> ds,
             queue |-> handle_unavailable_driver(st.queue, request),
             outcome |-> "requeued", driver |-> Unset]

-----------------------------------------------------------------------------
(* State machine *)

DriverLocations == {NewYork, Berlin, Nowhere}
PickupLocations == {Paris, Berlin, Nowhere}
Graphs == {SampleGraph, IslandGraph}

NoCall == [start |-> "None", end |-> "None", status |-> "idle",
           raised |-> FALSE, path |-> <<>>]

\* What the last operation was: the loop body's branch ("dropped", "assigned"
\* for the branch of a best driver, "requeued" for the branch of none,
\* "raised") or the collaborator's call, and whether it raised.
Event(op, request, driver, raised) ==
    [op |-> op, request |-> request, driver |-> driver, raised |-> raised]

Init ==
    /\ graph \in Graphs
    /\ drivers \in [1..NumDrivers ->
                      {Driver(l, a) : l \in DriverLocations, a \in BOOLEAN}]
    /\ pickup_address \in [1..NumRequests -> PickupLocations]
    /\ is_canceled = [r \in 1..NumRequests |-> FALSE]
    /\ passenger_request_queue = [i \in 1..NumRequests |-> i]
    /\ pc = "loop"
    /\ current = Unset
    /\ event = Event("init", Unset, Unset, FALSE)
    /\ call = NoCall
    /\ calls = 0

\* while self.passenger_request_queue: passenger_request = pop(0)
Dequeue ==
    /\ pc = "loop"
    /\ passenger_request_queue # <<>>
    /\ current' = Head(passenger_request_queue)
    /\ passenger_request_queue' = Tail(passenger_request_queue)
    /\ pc' = "evaluate"
    /\ UNCHANGED <<graph, drivers, pickup_address, is_canceled, event, call,
                   calls>>

\* Mutant of Skipped: the flag is not looked at.
SkippedNever(request) == FALSE

\* if passenger_request.is_canceled: continue
Skipped(request) == is_canceled[request]

\* The loop body after the pop: its branch and what it leaves.
loop_body(g, ds, queue, request, address) ==
    IF Skipped(request)
    THEN [drivers |-> ds, queue |-> queue, outcome |-> "dropped",
          driver |-> Unset]
    ELSE process_request(g, ds, queue, request, address)

\* The loop body after the pop, up to the next test of the loop.
Evaluate ==
    /\ pc = "evaluate"
    /\ LET out == loop_body(graph, drivers, passenger_request_queue,
                            current, pickup_address[current])
       IN /\ Len(out.queue) <= MaxQueueLen
          /\ drivers' = out.drivers
          /\ passenger_request_queue' = out.queue
          /\ pc' = IF out.outcome = "raised" THEN "raised" ELSE "loop"
          /\ event' = Event(out.outcome, current, out.driver,
                            out.outcome = "raised")
    /\ current' = Unset
    /\ UNCHANGED <<graph, pickup_address, is_canceled, call, calls>>

\* The loop test fails: process_passenger_requests returns.
Exit ==
    /\ pc = "loop"
    /\ passenger_request_queue = <<>>
    /\ pc' = "done"
    /\ UNCHANGED <<graph, drivers, pickup_address, is_canceled,
                   passenger_request_queue, current, event, call, calls>>

\* A further call of process_passenger_requests by the caller.
Start ==
    /\ pc \in {"done", "raised"}
    /\ calls < MaxCalls
    /\ calls' = calls + 1
    /\ pc' = "loop"
    /\ UNCHANGED <<graph, drivers, pickup_address, is_canceled,
                   passenger_request_queue, current, event, call>>

\* A collaborator's call happens between two loop bodies or outside the loop.
External ==
    /\ pc \in {"loop", "done", "raised"}
    /\ calls < MaxCalls
    /\ calls' = calls + 1

\* Mutant of CancelRequest: the request is also taken out of the queue and
\* the driver that holds it is released.
CancelAndRelease(request) ==
    /\ External
    /\ is_canceled' = [is_canceled EXCEPT ![request] = TRUE]
    /\ passenger_request_queue' =
           SelectSeq(passenger_request_queue, LAMBDA r : r # request)
    /\ drivers' = [d \in DOMAIN drivers |->
                      IF drivers[d].current_passenger = request
                      THEN [drivers[d] EXCEPT !.is_available = TRUE]
                      ELSE drivers[d]]
    /\ event' = Event("cancel_request", request, Unset, FALSE)
    /\ UNCHANGED <<graph, pickup_address, pc, current, call>>

CancelRequest(request) ==
    /\ External
    /\ is_canceled' = [is_canceled EXCEPT ![request] = TRUE]
    /\ event' = Event("cancel_request", request, Unset, FALSE)
    /\ UNCHANGED <<graph, drivers, pickup_address, passenger_request_queue,
                   pc, current, call>>

UpdateDriverStatus(driver, is_available) ==
    /\ External
    /\ LET u == update_status(drivers, driver, is_available)
       IN /\ drivers' = u.drivers
          /\ event' = Event("update_driver_status", Unset, driver, u.raised)
    /\ UNCHANGED <<graph, pickup_address, is_canceled,
                   passenger_request_queue, pc, current, call>>

\* assign_ride called by a collaborator with the route it computed.
AssignRide(driver, request) ==
    /\ External
    /\ LET r == calculate_optimal_route(
                    graph, get_coordinates(drivers[driver].location),
                    get_coordinates(pickup_address[request]))
           a == assign_ride(drivers, passenger_request_queue, driver,
                            request, r.path)
       IN /\ ~r.raised
          /\ Len(a.queue) <= MaxQueueLen
          /\ drivers' = a.drivers
          /\ passenger_request_queue' = a.queue
    /\ event' = Event("assign_ride", request, driver, FALSE)
    /\ UNCHANGED <<graph, pickup_address, is_canceled, pc, current, call>>

Next ==
    \/ Dequeue
    \/ Evaluate
    \/ Exit
    \/ Start
    \/ \E r \in 1..NumRequests : CancelRequest(r)
    \/ \E d \in 1..NumDrivers, v \in BOOLEAN : UpdateDriverStatus(d, v)
    \/ \E d \in 1..NumDrivers, r \in 1..NumRequests : AssignRide(d, r)

Spec == Init /\ [][Next]_vars

-----------------------------------------------------------------------------
(***************************************************************************)
(* One call of process_passenger_requests with no collaborator running:   *)
(* the sequential, single-worker loop.                                     *)
(***************************************************************************)

LoopNext == Dequeue \/ Evaluate \/ Exit

LoopSpec == Init /\ [][LoopNext]_vars

-----------------------------------------------------------------------------
(* The loop with cancel_request called between its loop bodies. *)

CancelNext ==
    \/ Dequeue
    \/ Evaluate
    \/ Exit
    \/ \E r \in 1..NumRequests : CancelRequest(r)

CancelSpec == Init /\ [][CancelNext]_vars

-----------------------------------------------------------------------------
(* calculate_optimal_route alone, over small graphs with weights           *)
(* 0..MaxWeight and over the configured graph, from and to every node, the *)
(* node None of an unmapped coordinate and a node Z that no graph holds.   *)

SmallNodes == {"A", "B", "C"}

Adjacency(n) ==
    UNION {[S -> 0..MaxWeight] : S \in SUBSET (SmallNodes \ {n})}

SmallGraphs ==
    {("A" :> a @@ "B" :> b @@ "C" :> c) :
        a \in Adjacency("A"), b \in Adjacency("B"), c \in Adjacency("C")}

RouteInit ==
    /\ graph \in SmallGraphs \cup Graphs
    /\ \E s \in DOMAIN graph \cup {"None", "Z"},
          e \in DOMAIN graph \cup {"None", "Z"} :
          call = [start |-> s, end |-> e, status |-> "pending",
                  raised |-> FALSE, path |-> <<>>]
    /\ drivers = <<>>
    /\ pickup_address = <<>>
    /\ is_canceled = <<>>
    /\ passenger_request_queue = <<>>
    /\ pc = "done"
    /\ current = Unset
    /\ event = Event("init", Unset, Unset, FALSE)
    /\ calls = 0

CallRoute ==
    /\ call.status = "pending"
    /\ LET r == calculate_optimal_route(graph, call.start, call.end)
       IN call' = [call EXCEPT !.status = "returned",
                               !.raised = r.raised,
                               !.path = r.path]
    /\ UNCHANGED <<graph, drivers, pickup_address, is_canceled,
                   passenger_request_queue, pc, current, event, calls>>

RouteNext == CallRoute

RouteSpec == RouteInit /\ [][RouteNext]_vars

-----------------------------------------------------------------------------
(* Vocabulary of the properties *)

Range(seq) == {seq[i] : i \in DOMAIN seq}

DriverIds == DOMAIN drivers

\* The route the code computes from a driver to a request's pickup.
RouteTo(d, request) ==
    calculate_optimal_route(graph, get_coordinates(drivers[d].location),
                            get_coordinates(pickup_address[request]))

Routable(d, request) ==
    ~RouteTo(d, request).raised /\ ~Falsy(RouteTo(d, request).path)

PickupDistance(d, request) ==
    calculate_distance(drivers[d].location, pickup_address[request])

\* A driver that holds a request: committed, not available.
Holds(d, request) ==
    /\ ~drivers[d].is_available
    /\ drivers[d].current_passenger = request

-----------------------------------------------------------------------------
(* C1.  Between two loop bodies of process_passenger_requests the pending  *)
(* queue holds no request that a driver holds as current_passenger, and no *)
(* request is held by two drivers.                                         *)
(* Refuted: with candidates [Berlin, NewYork], pickup Paris and Berlin cut *)
(* off, the Berlin candidate requeues the request and the NewYork          *)
(* candidate is then assigned the same request.                            *)

C1_QueueDisjointFromAssigned ==
    pc # "evaluate" =>
        /\ \A d \in DriverIds, r \in 1..NumRequests :
              Holds(d, r) => r \notin Range(passenger_request_queue)
        /\ \A d, e \in DriverIds, r \in 1..NumRequests :
              Holds(d, r) /\ Holds(e, r) => d = e

-----------------------------------------------------------------------------
(* C2.  With no status update between the loop bodies, find_available_     *)
(* drivers returns available drivers only, the driver a loop body selects  *)
(* was available before it, and a driver that is not available is left as  *)
(* it is: a driver is committed at most once.                              *)

C2_UnavailableNeverSelected ==
    [][pc = "evaluate" =>
          /\ \A d \in Range(find_available_drivers(
                               drivers, pickup_address[current])) :
                drivers[d].is_available
          /\ event'.op = "assigned" => drivers[event'.driver].is_available
          /\ \A d \in DriverIds :
                ~drivers[d].is_available => drivers'[d] = drivers[d]]_vars

\* A second request went to the farther driver because the nearest one was
\* committed to another request by an earlier loop body.
C2_Witness ==
    /\ pc = "loop"
    /\ event.op = "assigned"
    /\ Holds(event.driver, event.request)
    /\ \E d \in DriverIds, r \in 1..NumRequests :
          /\ r # event.request
          /\ Holds(d, r)
          /\ PickupDistance(d, event.request)
                < PickupDistance(event.driver, event.request)

-----------------------------------------------------------------------------
(* C3.  process_passenger_requests has no endless loop of pop and         *)
(* requeue.  The loop alone is deterministic, so it never ends once a loop *)
(* body leaves the queue and the drivers exactly as they were before its   *)
(* pop: stated as "no loop body does that".                                *)
(* Refuted: a request with no available driver is popped and appended      *)
(* again, and the loop is back where it was.                               *)

C3_NoEndlessLoop ==
    [][pc = "evaluate" =>
          ~ /\ pc' = "loop"
            /\ drivers' = drivers
            /\ passenger_request_queue' =
                   <<current>> \o passenger_request_queue]_vars

-----------------------------------------------------------------------------
(* C4.  A loop body that finds its request canceled changes no driver and  *)
(* leaves the queue as the pop left it (the request is not appended), and  *)
(* goes on to the next test of the loop; it takes the "dropped" branch.    *)

C4_CanceledIsDropped ==
    [][pc = "evaluate" /\ is_canceled[current] =>
          /\ drivers' = drivers
          /\ passenger_request_queue' = passenger_request_queue
          /\ pc' = "loop"
          /\ event'.op = "dropped"]_vars

\* A canceled request was popped and dropped while a driver was available
\* for it, and it is not in the queue any more.
C4_Witness ==
    /\ pc = "loop"
    /\ event.op = "dropped"
    /\ is_canceled[event.request]
    /\ event.request \notin Range(passenger_request_queue)
    /\ \E d \in DriverIds :
          drivers[d].is_available /\ Routable(d, event.request)

-----------------------------------------------------------------------------
(* C5.  A driver that is not available has a request and a non-empty       *)
(* route attached, and a driver that is available has neither.             *)
(* Refuted: Driver(name, location, False) has neither attribute;           *)
(* update_status(True) leaves both attached; the loop attaches the route   *)
(* of the last candidate, which may be None.                               *)

C5_AvailabilityMatchesAttachment ==
    \A d \in DriverIds :
        /\ ~drivers[d].is_available =>
              /\ drivers[d].current_passenger # Unset
              /\ drivers[d].current_route # UnsetRoute
              /\ ~Falsy(drivers[d].current_route)
        /\ drivers[d].is_available =>
              /\ drivers[d].current_passenger = Unset
              /\ drivers[d].current_route = UnsetRoute

-----------------------------------------------------------------------------
(* C6.  After a loop body that assigned its request, the route attached to *)
(* the selected driver is the route computed for that driver: it starts at *)
(* the driver's node and ends at the pickup node.                          *)
(* Refuted: assign_ride is passed the variable optimal_route, which holds  *)
(* the route of the last candidate of the for loop.                        *)

C6_RouteOfSelectedDriver ==
    (pc = "loop" /\ event.op = "assigned") =>
        LET route == drivers[event.driver].current_route
        IN /\ route = RouteTo(event.driver, event.request).path
           /\ route[1] = get_coordinates(drivers[event.driver].location)
           /\ route[Len(route)] =
                 get_coordinates(pickup_address[event.request])

-----------------------------------------------------------------------------
(* C7.  No loop body raises: a candidate whose coordinate maps to no node  *)
(* is left out and the loop body ends by assigning, requeuing or dropping. *)
(* Refuted: for such a candidate calculate_optimal_route is called with    *)
(* start None and raises KeyError at self.graph[None].                     *)

C7_NoFatalError == pc # "raised"

-----------------------------------------------------------------------------
(* C8.  calculate_optimal_route returns None or [] and does not raise when *)
(* there is no route: end not reachable from start, end not a node, start  *)
(* not a node (None included).                                             *)
(* Refuted: a start that is not a node raises KeyError.                    *)

\* The nodes reachable from the nodes of S in at most k steps.
RECURSIVE Reach(_, _, _)
Reach(g, S, k) ==
    IF k = 0 THEN S
    ELSE Reach(g, S \cup UNION {DOMAIN g[n] : n \in S \cap DOMAIN g}, k - 1)

HasRoute(g, s, e) ==
    /\ s \in DOMAIN g
    /\ e \in DOMAIN g
    /\ e \in Reach(g, {s}, Cardinality(DOMAIN g))

C8_EmptyWhenNoRoute ==
    (call.status = "returned" /\ ~HasRoute(graph, call.start, call.end)) =>
        ~call.raised /\ Falsy(call.path)

-----------------------------------------------------------------------------
(* C9.  For nodes start and end with end reachable from start,             *)
(* calculate_optimal_route returns a path from start to end along edges of *)
(* the graph whose weight is the least weight of a path from start to end; *)
(* on the configured graph the path from A to D is A, B, C, D of weight 4. *)

Least(S) == CHOOSE x \in S : \A y \in S : x <= y

\* Least weight of a walk of at most k edges from s to each node
\* (Bellman-Ford), Inf where there is none.
RECURSIVE LeastWeight(_, _, _)
LeastWeight(g, s, k) ==
    IF k = 0 THEN [n \in DOMAIN g |-> IF n = s THEN 0 ELSE Inf]
    ELSE LET prev == LeastWeight(g, s, k - 1)
         IN [n \in DOMAIN g |->
               Least({prev[n]} \cup
                     {prev[m] + g[m][n] :
                        m \in {x \in DOMAIN g :
                                 n \in DOMAIN g[x] /\ prev[x] < Inf}})]

IsPath(g, path) ==
    \A i \in 1..(Len(path) - 1) :
        path[i] \in DOMAIN g /\ path[i + 1] \in DOMAIN g[path[i]]

RECURSIVE PathWeight(_, _)
PathWeight(g, path) ==
    IF Len(path) <= 1 THEN 0
    ELSE g[path[1]][path[2]] + PathWeight(g, Tail(path))

C9_ShortestPath ==
    (call.status = "returned" /\ HasRoute(graph, call.start, call.end)) =>
        /\ ~call.raised
        /\ call.path # NoneRoute
        /\ call.path # <<>>
        /\ call.path[1] = call.start
        /\ call.path[Len(call.path)] = call.end
        /\ IsPath(graph, call.path)
        /\ PathWeight(graph, call.path) =
              LeastWeight(graph, call.start,
                          Cardinality(DOMAIN graph))[call.end]
        /\ (graph = SampleGraph /\ call.start = "A" /\ call.end = "D") =>
              /\ call.path = <<"A", "B", "C", "D">>
              /\ PathWeight(graph, call.path) = 4

\* The path from A to D of the configured graph, found past the edges of
\* weight 4 and 5.
C9_Witness ==
    /\ call.status = "returned"
    /\ graph = SampleGraph
    /\ call.start = "A"
    /\ call.end = "D"
    /\ call.path = <<"A", "B", "C", "D">>

-----------------------------------------------------------------------------
(* C10.  The driver a loop body selects is an available candidate with a   *)
(* non-empty route to the pickup node, no such candidate has a smaller     *)
(* estimated arrival time, and none with the same estimated arrival time   *)
(* has a smaller pickup distance.                                          *)

ArrivalTime(d, request) ==
    calculate_estimated_arrival_time(PickupDistance(d, request))

C10_BestCandidateSelected ==
    [][(pc = "evaluate" /\ event'.op = "assigned") =>
          LET best == event'.driver
              viable == {d \in DriverIds :
                           drivers[d].is_available /\ Routable(d, current)}
          IN /\ best \in viable
             /\ \A d \in viable :
                   \/ ArrivalTime(best, current) < ArrivalTime(d, current)
                   \/ /\ ArrivalTime(best, current) = ArrivalTime(d, current)
                      /\ PickupDistance(best, current)
                            <= PickupDistance(d, current)]_vars

\* The loop body chose between two viable candidates at different
\* distances and passed over a candidate with no route.
C10_Witness ==
    /\ pc = "loop"
    /\ event.op = "assigned"
    /\ \E d \in DriverIds :
          /\ d # event.driver
          /\ drivers[d].is_available
          /\ Routable(d, event.request)
          /\ PickupDistance(d, event.request)
                > PickupDistance(event.driver, event.request)

-----------------------------------------------------------------------------
(* C11.  After any sequence of loop bodies the pending queue holds at most *)
(* one entry for any given request, whatever the number of candidates that *)
(* had no route to it.                                                     *)
(* Refuted: every candidate with no route appends the request, and the     *)
(* branch of no best driver appends it once more; with two available       *)
(* drivers and a pickup that maps to no node one loop body leaves three    *)
(* entries of the request.                                                 *)

Entries(queue, request) ==
    Cardinality({i \in DOMAIN queue : queue[i] = request})

C11_AtMostOneEntry ==
    \A r \in 1..NumRequests : Entries(passenger_request_queue, r) <= 1

-----------------------------------------------------------------------------
(* The loop with update_driver_status called between its loop bodies. *)

StatusNext ==
    \/ Dequeue
    \/ Evaluate
    \/ Exit
    \/ \E d \in 1..NumDrivers, v \in BOOLEAN : UpdateDriverStatus(d, v)

StatusSpec == Init /\ [][StatusNext]_vars

-----------------------------------------------------------------------------
(* C12.  A step of process_passenger_requests never changes a driver's     *)
(* is_available from False to True: it changes is_available only from True *)
(* to False, only in a loop body that assigns, and only for the driver     *)
(* that loop body selected.  A change from False to True is a call of      *)
(* update_driver_status for that driver.                                   *)

C12_AvailabilityChanges ==
    [][\A d \in DriverIds :
          drivers'[d].is_available # drivers[d].is_available =>
              IF pc = "evaluate"
              THEN /\ drivers[d].is_available
                   /\ ~drivers'[d].is_available
                   /\ event'.op = "assigned"
                   /\ event'.driver = d
              ELSE /\ event'.op = "update_driver_status"
                   /\ event'.driver = d]_vars

\* A driver the loop committed to a request was made available again by
\* update_driver_status.
C12_Witness ==
    /\ event.op = "update_driver_status"
    /\ drivers[event.driver].is_available
    /\ drivers[event.driver].current_passenger # Unset

-----------------------------------------------------------------------------
(* The loop with assign_ride called by a collaborator between its loop     *)
(* bodies.                                                                 *)

AssignNext ==
    \/ Dequeue
    \/ Evaluate
    \/ Exit
    \/ \E d \in 1..NumDrivers, r \in 1..NumRequests : AssignRide(d, r)

AssignSpec == Init /\ [][AssignNext]_vars

-----------------------------------------------------------------------------
(* C13.  assign_ride called for a driver that is not available commits     *)
(* nothing: every driver is left as it is and the request is appended once *)
(* at the tail of the pending queue.  Called for an available driver it    *)
(* sets is_available to False and attaches the request and the route it    *)
(* was passed, and leaves the queue and the other drivers as they are.     *)

C13_AssignRide ==
    [][(calls' # calls /\ event'.op = "assign_ride") =>
          LET d == event'.driver
              r == event'.request
          IN IF ~drivers[d].is_available
             THEN /\ drivers' = drivers
                  /\ passenger_request_queue' =
                         Append(passenger_request_queue, r)
             ELSE /\ passenger_request_queue' = passenger_request_queue
                  /\ ~drivers'[d].is_available
                  /\ drivers'[d].current_passenger = r
                  /\ drivers'[d].current_route = RouteTo(d, r).path
                  /\ drivers'[d].location = drivers[d].location
                  /\ \A e \in DriverIds \ {d} :
                        drivers'[e] = drivers[e]]_vars

\* assign_ride was called for a driver that holds another request: the
\* driver still holds that request and the request passed is the last of
\* the queue.
C13_Witness ==
    /\ event.op = "assign_ride"
    /\ \E r \in 1..NumRequests :
          r # event.request /\ Holds(event.driver, r)
    /\ passenger_request_queue # <<>>
    /\ passenger_request_queue[Len(passenger_request_queue)] = event.request

-----------------------------------------------------------------------------
(* C14.  update_driver_status(driver, v) returns normally, changes nothing *)
(* but the is_available of that driver (no other attribute of it, no other *)
(* driver, not the queue), and no loop body of process_passenger_requests  *)
(* calls it.                                                               *)
(* Refuted: Driver.update_status sets the flag and then formats a log line *)
(* with self.uuid, an attribute no Driver has: AttributeError.             *)

C14_UpdateCompletes ==
    [][/\ (calls' # calls /\ event'.op = "update_driver_status") =>
             LET d == event'.driver
             IN /\ ~event'.raised
                /\ drivers' = [drivers EXCEPT ![d] =
                                 [@ EXCEPT !.is_available =
                                              drivers'[d].is_available]]
                /\ passenger_request_queue' = passenger_request_queue
       /\ pc = "evaluate" => event'.op # "update_driver_status"]_vars

-----------------------------------------------------------------------------
(* C15.  In a loop body every candidate for which calculate_optimal_route  *)
(* returns no route (None or []) is skipped: it is left as it is and is    *)
(* not selected, the request is appended once at the tail of the queue for *)
(* that candidate, and the for loop goes on, so that a candidate with a    *)
(* route is still selected.  The queue after the loop body is the queue    *)
(* before it, then one entry per skipped candidate, then one more if no    *)
(* driver was selected.  (A candidate for which the route computation      *)
(* raises ends the for loop: the candidates before it count.)              *)

Candidates(request) ==
    find_available_drivers(drivers, pickup_address[request])

NoRoute(d, request) ==
    ~RouteTo(d, request).raised /\ Falsy(RouteTo(d, request).path)

\* The candidates the for loop gets through: all of them, or those before
\* the first one whose route computation raises.
Evaluated(request) ==
    LET c == Candidates(request)
        bad == {i \in DOMAIN c : RouteTo(c[i], request).raised}
    IN IF bad = {} THEN c ELSE SubSeq(c, 1, Least(bad) - 1)

C15_UnroutableCandidateSkipped ==
    [][(pc = "evaluate" /\ ~is_canceled[current]) =>
          LET seen == Evaluated(current)
              skipped == {i \in DOMAIN seen : NoRoute(seen[i], current)}
              extra == IF event'.op = "requeued" THEN 1 ELSE 0
          IN /\ passenger_request_queue' =
                    passenger_request_queue \o
                    [i \in 1..(Cardinality(skipped) + extra) |-> current]
             /\ \A i \in skipped : drivers'[seen[i]] = drivers[seen[i]]
             /\ event'.op = "assigned" =>
                    ~NoRoute(event'.driver, current)
             /\ (pc' = "loop" /\ \E i \in DOMAIN seen : i \notin skipped) =>
                    event'.op = "assigned"]_vars

\* A loop body skipped a candidate with no route, appended the request for
\* it, went on and selected a later candidate.
C15_Witness ==
    /\ pc = "loop"
    /\ event.op = "assigned"
    /\ \E d \in DriverIds :
          /\ d < event.driver
          /\ drivers[d].is_available
          /\ NoRoute(d, event.request)
    /\ passenger_request_queue # <<>>
    /\ passenger_request_queue[Len(passenger_request_queue)] = event.request

-----------------------------------------------------------------------------
(* C16.  A request is dequeued from the head of the queue; a loop body     *)
(* appends only its own request, at the tail, and leaves the entries that  *)
(* were pending in their order; and a request that a loop body requeued is *)
(* evaluated again only after every other request that was in the queue at *)
(* that moment has been dequeued: in the queue the loop body leaves, the   *)
(* first entry of every other request is ahead of the first entry of the   *)
(* requeued request.                                                       *)
(* Refuted in its last part: a request appended more than once by one loop *)
(* body (C11) has an entry left in the queue when it is requeued the next  *)
(* time, ahead of requests that were requeued after it.                    *)

First(queue, request) ==
    Least({i \in DOMAIN queue : queue[i] = request})

C16_HeadOutTailIn ==
    [][/\ (pc = "loop" /\ pc' = "evaluate") =>
             /\ current' = Head(passenger_request_queue)
             /\ passenger_request_queue' = Tail(passenger_request_queue)
       /\ pc = "evaluate" =>
             \E k \in 0..MaxQueueLen :
                 passenger_request_queue' =
                     passenger_request_queue \o [i \in 1..k |-> current]
       /\ (pc = "evaluate" /\ event'.op = "requeued") =>
             \A q \in Range(passenger_request_queue') \ {current} :
                 First(passenger_request_queue', q)
                     < First(passenger_request_queue', current)]_vars

-----------------------------------------------------------------------------
(* C17.  A loop body for a request that is not canceled, run while some    *)
(* available driver has a non-empty route to the request's pickup node,    *)
(* assigns the request: after it a driver holds the request.               *)
(* Refuted: with another available driver at a coordinate that maps to no  *)
(* node the for loop raises KeyError (C7) and nothing is assigned.         *)

C17_AssignedWhenRoutable ==
    [][(/\ pc = "evaluate"
        /\ ~is_canceled[current]
        /\ \E d \in DriverIds :
              drivers[d].is_available /\ Routable(d, current)) =>
          /\ event'.op = "assigned"
          /\ ~drivers'[event'.driver].is_available
          /\ drivers'[event'.driver].current_passenger = current]_vars

-----------------------------------------------------------------------------
(* C18.  cancel_request sets the is_canceled flag of its request and       *)
(* nothing else: the queue, every driver and the position of the loop are  *)
(* as before, so a driver that holds the request holds it after the call,  *)
(* and goes on holding it in every later step.  The flag is read at the    *)
(* pop of that request only: a loop body takes the "dropped" branch        *)
(* exactly when the request it popped is canceled.                         *)

C18_CancelSetsFlagOnly ==
    [][/\ (calls' # calls /\ event'.op = "cancel_request") =>
             /\ is_canceled' =
                    [is_canceled EXCEPT ![event'.request] = TRUE]
             /\ passenger_request_queue' = passenger_request_queue
             /\ drivers' = drivers
             /\ pc' = pc
             /\ current' = current
       /\ \A d \in DriverIds, r \in 1..NumRequests :
             Holds(d, r) =>
                 /\ ~drivers'[d].is_available
                 /\ drivers'[d].current_passenger = r
                 /\ drivers'[d].current_route = drivers[d].current_route
       /\ pc = "evaluate" =>
             (event'.op = "dropped" <=> is_canceled[current])]_vars

\* A request that a driver holds was canceled: the driver still holds it
\* with its route, and the request that is still pending is not canceled.
C18_Witness ==
    /\ event.op = "cancel_request"
    /\ is_canceled[event.request]
    /\ \E d \in DriverIds :
          /\ Holds(d, event.request)
          /\ ~Falsy(drivers[d].current_route)
    /\ \E r \in Range(passenger_request_queue) : ~is_canceled[r]

-----------------------------------------------------------------------------
(* C19.  For every node X of the graph calculate_optimal_route(X, X)       *)
(* returns the one-element path [X] and does not raise, whatever the edges *)
(* of X are.                                                               *)

C19_RouteToSelf ==
    (/\ call.status = "returned"
     /\ call.start = call.end
     /\ call.start \in DOMAIN graph) =>
        /\ ~call.raised
        /\ call.path = <<call.start>>

\* The call was made for a node that has edges of weight 0 to other nodes,
\* on which a search that went on would find a path of the same weight.
C19_Witness ==
    /\ call.status = "returned"
    /\ call.start = call.end
    /\ call.start \in DOMAIN graph
    /\ call.path = <<call.start>>
    /\ \E n \in DOMAIN graph[call.start] :
          /\ graph[call.start][n] = 0
          /\ call.start \in DOMAIN graph[n]
          /\ graph[n][call.start] = 0

-----------------------------------------------------------------------------
(* find_available_drivers alone: one call for a pickup coordinate, with    *)
(* the registered drivers at mapped and unmapped coordinates.              *)

FindLocations == {NewYork, Nowhere, Pantanal, PhilippineSea}

FindInit ==
    /\ graph = SampleGraph
    /\ drivers \in [1..NumDrivers ->
                      {Driver(l, a) : l \in FindLocations, a \in BOOLEAN}]
    /\ pickup_address \in [1..NumRequests -> {Paris}]
    /\ is_canceled = [r \in 1..NumRequests |-> FALSE]
    /\ passenger_request_queue = [i \in 1..NumRequests |-> i]
    /\ pc = "done"
    /\ current = Unset
    /\ event = Event("init", Unset, Unset, FALSE)
    /\ \E p \in FindLocations \cup {Paris} :
          call = [passenger_location |-> p, status |-> "pending",
                  raised |-> FALSE, available_drivers |-> <<>>]
    /\ calls = 0

CallFind ==
    /\ call.status = "pending"
    /\ call' = [call EXCEPT
                  !.status = "returned",
                  !.raised = find_available_drivers_raises(
                                 drivers, call.passenger_location),
                  !.available_drivers =
                      IF find_available_drivers_raises(
                             drivers, call.passenger_location)
                      THEN <<>>
                      ELSE find_available_drivers(
                               drivers, call.passenger_location)]
    /\ UNCHANGED <<graph, drivers, pickup_address, is_canceled,
                   passenger_request_queue, pc, current, event, calls>>

FindNext == CallFind

FindSpec == FindInit /\ [][FindNext]_vars

-----------------------------------------------------------------------------
(* C20.  With MAX_DISTANCE = float('inf'), find_available_drivers returns, *)
(* for any pickup coordinate, exactly the registered drivers whose         *)
(* is_available is True, in the order of the registry, and changes no      *)
(* driver and not the queue.                                               *)
(* Refuted: for an available driver at the antipode of the pickup          *)
(* coordinate calculate_distance raises ValueError, and so does            *)
(* find_available_drivers.                                                 *)

C20_ExactlyTheAvailable ==
    [][(call.status = "pending" /\ call'.status = "returned") =>
          /\ ~call'.raised
          /\ call'.available_drivers =
                 SelectSeq([i \in 1..Len(drivers) |-> i],
                           LAMBDA i : drivers[i].is_available)
          /\ drivers' = drivers
          /\ passenger_request_queue' = passenger_request_queue]_vars

-----------------------------------------------------------------------------
(* C21.  A loop body leaves the routing graph as it is and changes the     *)
(* record (location, is_available, current_passenger, current_route) of no *)
(* driver but the one it selected; a loop body that selects none changes   *)
(* no driver, and the selected driver keeps its location.  (The            *)
(* coordinate mapping is only ever read, lines 96-98: it is the definition *)
(* location_mapping, which no step can change.)                            *)

C21_FrameOfLoopBody ==
    [][pc = "evaluate" =>
          /\ graph' = graph
          /\ \A d \in DriverIds :
                (event'.op # "assigned" \/ d # event'.driver) =>
                    drivers'[d] = drivers[d]
          /\ event'.op = "assigned" =>
                drivers'[event'.driver].location
                    = drivers[event'.driver].location]_vars

\* A loop body selected one of two available drivers: the other one is
\* still available with nothing attached.
C21_Witness ==
    /\ pc = "loop"
    /\ event.op = "assigned"
    /\ Holds(event.driver, event.request)
    /\ \E d \in DriverIds :
          /\ d # event.driver
          /\ drivers[d].is_available
          /\ drivers[d].current_passenger = Unset
          /\ drivers[d].current_route = UnsetRoute

-----------------------------------------------------------------------------
(***************************************************************************)
(* Two dispatch workers, each running the loop of                          *)
(* process_passenger_requests over the same drivers and queue.  Here pc,   *)
(* current, event and call are per worker; call holds the locals            *)
(* best_driver and optimal_route that a worker passes to assign_ride.      *)
(* A loop body is the pop, the scan of the candidates (lines 142-198 up to *)
(* the call of assign_ride), and then the statements of assign_ride one by *)
(* one: the read of is_available (line 125), the write of is_available     *)
(* (line 126), the attachment of request and route (lines 129-130).        *)
(***************************************************************************)

NumWorkers == 2

Workers == 1..NumWorkers

NoPick == [driver |-> Unset, optimal_route |-> UnsetRoute]

WorkersInit ==
    /\ graph \in Graphs
    /\ drivers \in [1..NumDrivers ->
                      {Driver(l, a) : l \in DriverLocations, a \in BOOLEAN}]
    /\ pickup_address \in [1..NumRequests -> PickupLocations]
    /\ is_canceled = [r \in 1..NumRequests |-> FALSE]
    /\ passenger_request_queue = [i \in 1..NumRequests |-> i]
    /\ pc = [w \in Workers |-> "loop"]
    /\ current = [w \in Workers |-> Unset]
    /\ event = [w \in Workers |-> Event("init", Unset, Unset, FALSE)]
    /\ call = [w \in Workers |-> NoPick]
    /\ calls = 0

\* while self.passenger_request_queue: passenger_request = pop(0)
WorkerDequeue(w) ==
    /\ pc[w] = "loop"
    /\ passenger_request_queue # <<>>
    /\ current' = [current EXCEPT ![w] = Head(passenger_request_queue)]
    /\ passenger_request_queue' = Tail(passenger_request_queue)
    /\ pc' = [pc EXCEPT ![w] = "scan"]
    /\ UNCHANGED <<graph, drivers, pickup_address, is_canceled, event, call,
                   calls>>

WorkerExit(w) ==
    /\ pc[w] = "loop"
    /\ passenger_request_queue = <<>>
    /\ pc' = [pc EXCEPT ![w] = "done"]
    /\ UNCHANGED <<graph, drivers, pickup_address, is_canceled,
                   passenger_request_queue, current, event, call, calls>>

\* The loop body from the test of is_canceled to the call of assign_ride.
WorkerScan(w) ==
    /\ pc[w] = "scan"
    /\ LET request == current[w]
           address == pickup_address[request]
           st == IF find_available_drivers_raises(drivers, address)
                 THEN [ScanStart(passenger_request_queue)
                          EXCEPT !.raised = TRUE]
                 ELSE CandidateLoop(graph, drivers, request, address,
                                    find_available_drivers(drivers, address),
                                    ScanStart(passenger_request_queue))
       IN IF Skipped(request)
          THEN /\ pc' = [pc EXCEPT ![w] = "loop"]
               /\ event' = [event EXCEPT
                              ![w] = Event("dropped", request, Unset, FALSE)]
               /\ current' = [current EXCEPT ![w] = Unset]
               /\ UNCHANGED <<passenger_request_queue, call>>
          ELSE IF st.raised
          THEN /\ Len(st.queue) <= MaxQueueLen
               /\ pc' = [pc EXCEPT ![w] = "raised"]
               /\ event' = [event EXCEPT
                              ![w] = Event("raised", request, Unset, TRUE)]
               /\ passenger_request_queue' = st.queue
               /\ current' = [current EXCEPT ![w] = Unset]
               /\ UNCHANGED call
          ELSE IF st.best_driver = Unset
          THEN /\ Len(st.queue) < MaxQueueLen
               /\ pc' = [pc EXCEPT ![w] = "loop"]
               /\ event' = [event EXCEPT
                              ![w] = Event("requeued", request, Unset, FALSE)]
               /\ passenger_request_queue' =
                      handle_unavailable_driver(st.queue, request)
               /\ current' = [current EXCEPT ![w] = Unset]
               /\ UNCHANGED call
          ELSE /\ Len(st.queue) <= MaxQueueLen
               /\ pc' = [pc EXCEPT ![w] = "read"]
               /\ call' = [call EXCEPT
                             ![w] = [driver |-> st.best_driver,
                                     optimal_route |-> st.optimal_route]]
               /\ passenger_request_queue' = st.queue
               /\ UNCHANGED <<event, current>>
    /\ UNCHANGED <<graph, drivers, pickup_address, is_canceled, calls>>

\* assign_ride, line 125: if driver.is_available; the else branch is
\* handle_unavailable_driver(passenger).
WorkerRead(w) ==
    /\ pc[w] = "read"
    /\ IF drivers[call[w].driver].is_available
       THEN /\ pc' = [pc EXCEPT ![w] = "write"]
            /\ UNCHANGED <<passenger_request_queue, current, event, call>>
       ELSE /\ Len(passenger_request_queue) < MaxQueueLen
            /\ passenger_request_queue' =
                   handle_unavailable_driver(passenger_request_queue,
                                             current[w])
            /\ pc' = [pc EXCEPT ![w] = "loop"]
            /\ event' = [event EXCEPT
                           ![w] = Event("unavailable", current[w],
                                        call[w].driver, FALSE)]
            /\ current' = [current EXCEPT ![w] = Unset]
            /\ call' = [call EXCEPT ![w] = NoPick]
    /\ UNCHANGED <<graph, drivers, pickup_address, is_canceled, calls>>

\* assign_ride, line 126: driver.is_available = False
WorkerWrite(w) ==
    /\ pc[w] = "write"
    /\ drivers' = [drivers EXCEPT
                     ![call[w].driver] = [@ EXCEPT !.is_available = FALSE]]
    /\ pc' = [pc EXCEPT ![w] = "attach"]
    /\ UNCHANGED <<graph, pickup_address, is_canceled,
                   passenger_request_queue, current, event, call, calls>>

\* assign_ride, lines 129-130: current_passenger and current_route.
WorkerAttach(w) ==
    /\ pc[w] = "attach"
    /\ drivers' = [drivers EXCEPT
                     ![call[w].driver] =
                         [@ EXCEPT !.current_passenger = current[w],
                                   !.current_route =
                                       call[w].optimal_route]]
    /\ pc' = [pc EXCEPT ![w] = "loop"]
    /\ event' = [event EXCEPT
                   ![w] = Event("assigned", current[w], call[w].driver,
                                FALSE)]
    /\ current' = [current EXCEPT ![w] = Unset]
    /\ call' = [call EXCEPT ![w] = NoPick]
    /\ UNCHANGED <<graph, pickup_address, is_canceled,
                   passenger_request_queue, calls>>

WorkersNext ==
    \E w \in Workers :
        \/ WorkerDequeue(w)
        \/ WorkerScan(w)
        \/ WorkerRead(w)
        \/ WorkerWrite(w)
        \/ WorkerAttach(w)
        \/ WorkerExit(w)

WorkersSpec == WorkersInit /\ [][WorkersNext]_vars

-----------------------------------------------------------------------------
(* C22.  With two workers and the read and the write of is_available in    *)
(* assign_ride as separate steps, the commit is atomic in effect: no       *)
(* driver is committed twice, that is, no step attaches a request to a     *)
(* driver that has a request attached already, and two workers whose last  *)
(* loop bodies both assigned did not assign the same driver.               *)
(* Refuted: both workers read is_available = True for the same driver      *)
(* before either writes False; both then commit, and the second            *)
(* attachment replaces the request of the first.                           *)

C22_CommitIsAtomic ==
    [][/\ \A d \in DriverIds :
             drivers'[d].current_passenger # drivers[d].current_passenger
                 => drivers[d].current_passenger = Unset
       /\ \A v, w \in Workers :
             (/\ v # w
              /\ event'[v].op = "assigned"
              /\ event'[w].op = "assigned"
              /\ event'[v].request # event'[w].request) =>
                 event'[v].driver # event'[w].driver]_vars

-----------------------------------------------------------------------------
(***************************************************************************)
(* The monolithic variant, src/main.py: the loop of RideSharingSystem.main *)
(* with get_next_passenger_request and match_passenger_with_driver.  Its   *)
(* graph is the one of get_graph, every driver is created available, and   *)
(* call holds what the last match returned.                                *)
(***************************************************************************)

\* get_next_passenger_request: the head of the queue, which stays in the
\* queue; None (Unset) for an empty queue.
get_next_passenger_request(queue) ==
    IF queue # <<>> THEN Head(queue) ELSE Unset

\* find_available_drivers of src/main.py, with its local MAX_DISTANCE.
main_find_available_drivers(ds, passenger_location) ==
    SelectSeq([i \in 1..Len(ds) |-> i],
              LAMBDA i : /\ ds[i].is_available
                         /\ calculate_distance(ds[i].location,
                                               passenger_location) <= Inf)

\* The for loop of match_passenger_with_driver: distance is bound by every
\* iteration, best_driver and min_distance by those that improve.
RECURSIVE MatchLoop(_, _, _, _)
MatchLoop(ds, passenger_location, todo, st) ==
    IF todo = <<>>
    THEN st
    ELSE LET driver == Head(todo)
             distance == calculate_distance(ds[driver].location,
                                            passenger_location)
         IN MatchLoop(ds, passenger_location, Tail(todo),
                IF distance < st.min_distance
                THEN [best_driver |-> driver, min_distance |-> distance,
                      distance |-> distance, bound |-> TRUE]
                ELSE [st EXCEPT !.distance = distance, !.bound = TRUE])

\* return best_driver, distance: the distance of the last driver of the
\* list; for an empty list distance is not bound (UnboundLocalError).
match_passenger_with_driver(ds, passenger_location, available_drivers) ==
    LET st == MatchLoop(ds, passenger_location, available_drivers,
                        [best_driver |-> Unset, min_distance |-> Inf,
                         distance |-> Unset, bound |-> FALSE])
    IN [raised |-> ~st.bound, best_driver |-> st.best_driver,
        distance |-> st.distance]

\* calculate_optimal_route of src/main.py: the same search, from the node
\* of the driver to the node of the passenger, with [] where the other
\* returns None.
main_calculate_optimal_route(g, driver_location, passenger_location) ==
    LET r == calculate_optimal_route(g, get_coordinates(driver_location),
                                     get_coordinates(passenger_location))
    IN IF ~r.raised /\ r.path = NoneRoute
       THEN [raised |-> FALSE, path |-> <<>>]
       ELSE r

NoMatch == [status |-> "idle", available_drivers |-> <<>>,
            best_driver |-> Unset, distance |-> Unset]

MainLocations == {NewYork, London, Nowhere}

\* The state after add_driver and add_passenger calls, add_test_data's
\* among them: drivers at NewYork and London, a passenger at Paris.
MainInit ==
    /\ graph = SampleGraph
    /\ drivers \in [1..NumDrivers ->
                      {Driver(l, TRUE) : l \in MainLocations}]
    /\ pickup_address \in [1..NumRequests -> PickupLocations]
    /\ is_canceled = [r \in 1..NumRequests |-> FALSE]
    /\ passenger_request_queue = [i \in 1..NumRequests |-> i]
    /\ pc = "loop"
    /\ current = Unset
    /\ event = Event("init", Unset, Unset, FALSE)
    /\ call = NoMatch
    /\ calls = 0

\* One iteration of the while True loop of main, up to time.sleep(10).
MainIteration ==
    /\ pc = "loop"
    /\ LET new_passenger_request ==
               get_next_passenger_request(passenger_request_queue)
           location == pickup_address[new_passenger_request]
           available_drivers ==
               main_find_available_drivers(drivers, location)
           m == match_passenger_with_driver(drivers, location,
                                            available_drivers)
           r == main_calculate_optimal_route(
                    graph, drivers[m.best_driver].location, location)
           a == assign_ride(drivers, passenger_request_queue,
                            m.best_driver, new_passenger_request, r.path)
       IN IF new_passenger_request = Unset \/ available_drivers = <<>>
          THEN /\ event' = Event("idle", new_passenger_request, Unset, FALSE)
               /\ call' = NoMatch
               /\ UNCHANGED <<drivers, passenger_request_queue, pc>>
          ELSE /\ call' = [status |-> "matched",
                           available_drivers |-> available_drivers,
                           best_driver |-> m.best_driver,
                           distance |-> m.distance]
               /\ IF m.best_driver = Unset
                  THEN /\ Len(passenger_request_queue) < MaxQueueLen
                       /\ passenger_request_queue' =
                              handle_unavailable_driver(
                                  passenger_request_queue,
                                  new_passenger_request)
                       /\ event' = Event("requeued", new_passenger_request,
                                         Unset, FALSE)
                       /\ UNCHANGED <<drivers, pc>>
                  ELSE IF r.raised
                  THEN /\ pc' = "raised"
                       /\ event' = Event("raised", new_passenger_request,
                                         m.best_driver, TRUE)
                       /\ UNCHANGED <<drivers, passenger_request_queue>>
                  ELSE /\ Len(a.queue) <= MaxQueueLen
                       /\ drivers' = a.drivers
                       /\ passenger_request_queue' = a.queue
                       /\ event' = Event("assigned", new_passenger_request,
                                         m.best_driver, FALSE)
                       /\ UNCHANGED pc
    /\ UNCHANGED <<graph, pickup_address, is_canceled, current, calls>>

MainNext == MainIteration

MainSpec == MainInit /\ [][MainNext]_vars

-----------------------------------------------------------------------------
(* C23.  In the loop of src/main.py a request that a driver holds is not   *)
(* in the pending queue and is held by that driver only, after any number  *)
(* of iterations.                                                          *)
(* Refuted: get_next_passenger_request returns queue[0] and nothing ever   *)
(* removes it, so the next iteration assigns the same request to the next  *)
(* nearest available driver.                                               *)

C23_AssignedOnceAndRemoved ==
    \A r \in 1..NumRequests :
        /\ (\E d \in DriverIds : Holds(d, r)) =>
               r \notin Range(passenger_request_queue)
        /\ \A d, e \in DriverIds :
               (Holds(d, r) /\ Holds(e, r)) => d = e

-----------------------------------------------------------------------------
(* C24.  match_passenger_with_driver of src/main.py, applied to a          *)
(* non-empty list of drivers, returns a driver of the list at the least    *)
(* distance from the passenger, and the distance it returns is that        *)
(* driver's distance, the least one, whatever the order of the list.       *)
(* Refuted: it returns the local variable distance, which holds the        *)
(* distance of the last driver of the list, not min_distance.              *)

C24_NearestDriverAndItsDistance ==
    call.status = "matched" =>
        LET location == pickup_address[event.request]
            Distance(d) == calculate_distance(drivers[d].location, location)
        IN /\ call.best_driver \in Range(call.available_drivers)
           /\ \A d \in Range(call.available_drivers) :
                 Distance(call.best_driver) <= Distance(d)
           /\ call.distance = Distance(call.best_driver)

=============================================================================
